---- MODULE Spec2Model ----
(***************************************************************************)
(* pyroute2.ipdb.route: the transactional mirror of the kernel's routing   *)
(* tables.  The model follows src/pyroute2/ipdb/route.py: the route key,   *)
(* BaseRoute.load_netlink, BaseRoute.commit (one step per access to shared *)
(* state), RoutingTable.describe / __setitem__ / __delitem__ and           *)
(* RoutingTableSet.add / load_netlink.  The authority (kernel), the        *)
(* transactional substrate and the wait mechanism are collaborators kept   *)
(* outside route.py; they are modelled from their contracts.               *)
(***************************************************************************)
EXTENDS Integers, Sequences, FiniteSets, TLC

VARIABLES
    routes,     \* the Route objects alive: id -> fields (BaseRoute, a dict)
    tx,         \* id -> the current transaction of that Route (Transactional)
    tables,     \* RoutingTableSet.tables: table id -> idx (RouteKey -> record)
    queue,      \* authority notifications in flight to the ingestion path
    cm,         \* the call stack of the commit in progress (frames of commit)
    requests,   \* kernel requests issued by the commit in progress, in order
    wd,         \* the RTM_DELROUTE watchdog of the commit in progress
    used,       \* how many commit calls and foreign notifications there were
    lock        \* RoutingTable.lock: table id -> the thread that holds it

vars == <<routes, tx, tables, queue, cm, requests, wd, used, lock>>

----------------------------------------------------------------------------
(* Bounds of the model.                                                    *)

MaxRoutes == 2
MaxQueue == 1
MaxCommits == 1
MaxExternal == 2

(* Program constants.                                                      *)

DefaultTable == "254"
OtherTable == "100"
Required == 4

None == "None"
AF_INET == "AF_INET"
AF_MPLS == "AF_MPLS"

RouteIds == 1..MaxRoutes
Addrs == {"10.0.0.0"}
PrefixLens == {24}
Gateways == {"gw1", "gw2"}
Oifs == {"2"}
Priorities == {"100"}
Mtus == {"1400"}

----------------------------------------------------------------------------
(* Python helpers.                                                         *)

(* Truth value of a scalar field (every scalar is modelled as a string).   *)
Truthy(v) == v \notin {None, ""}

EmptyMap == [x \in {} |-> None]

Put(f, k, v) == [x \in (DOMAIN f) \cup {k} |-> IF x = k THEN v ELSE f[x]]

Del(f, k) == [x \in (DOMAIN f) \ {k} |-> f[x]]

(* msg.get_attr(name): None when the message carries no such attribute.    *)
get_attr(msg, name) == IF name \in DOMAIN msg THEN msg[name] ELSE None

(* '%s/%s' % (address, prefixlen)                                          *)
Fmt(addr, len) == addr \o "/" \o ToString(len)

Default == "default"

EmptyMetrics == [mtu |-> None]

EmptyEncap == [type |-> None, labels |-> None]

----------------------------------------------------------------------------
(* Key model.                                                              *)

RouteKey(src, dst, gateway, encap, iif, oif) ==
    <<src, dst, gateway, encap, iif, oif>>

(* key[:r] + (None,) * (len(l) - r)                                        *)
RequiredPrefix(key) ==
    [i \in 1..Len(key) |-> IF i <= Required THEN key[i] ELSE None]

(* Route.make_key for a netlink message.                                   *)
make_key_msg(msg) ==
    LET src == IF get_attr(msg, "RTA_SRC") # None
               THEN Fmt(get_attr(msg, "RTA_SRC"), msg.src_len)
               ELSE None
        dst == IF get_attr(msg, "RTA_DST") # None
               THEN Fmt(get_attr(msg, "RTA_DST"), msg.dst_len)
               ELSE Default
        encap == IF get_attr(msg, "RTA_ENCAP_TYPE") # "1"
                 THEN None
                 ELSE get_attr(msg, "RTA_ENCAP")
    IN  RouteKey(src, dst, get_attr(msg, "RTA_GATEWAY"), encap,
                 get_attr(msg, "RTA_IIF"), get_attr(msg, "RTA_OIF"))

(* Route.make_key for a field mapping (a Route or a transaction).          *)
make_key(rt) ==
    LET one == Len(rt.multipath) = 1
        nh == rt.multipath[1].raw
        encap == IF Truthy(rt.encap.labels) THEN rt.encap.labels
                 ELSE IF one /\ "encap" \in DOMAIN nh THEN nh.encap.labels
                 ELSE None
        gateway == IF one /\ ~Truthy(rt.gateway) THEN get_attr(nh, "gateway")
                   ELSE rt.gateway
    IN  RouteKey(rt.src, rt.dst, gateway, encap, rt.iif, rt.oif)

(* WatchdogKey: the fields of the route that are set, as a match for an    *)
(* RTM_DELROUTE notification.                                              *)
WatchdogKey(rt) ==
    [f \in {g \in {"dst", "src", "oif", "iif", "gateway"} : Truthy(rt[g])}
        |-> rt[f]]

----------------------------------------------------------------------------
(* Route entity.                                                           *)

(* A Route as constructed: every field unset.                              *)
NewRoute ==
    [family |-> None, table |-> None, src |-> None, dst |-> None,
     gateway |-> None, encap |-> EmptyEncap, iif |-> None, oif |-> None,
     priority |-> None, metrics |-> EmptyMetrics, multipath |-> <<>>,
     ipdb_scope |-> None]

----------------------------------------------------------------------------
(* Nexthop set (NextHopSet over LinkedSet).  A set is the sequence of its  *)
(* entries in insertion order; an entry is the key with the value it was   *)
(* added with (self.raw).                                                  *)

(* The fields of RouteKey, in order.                                       *)
KeyFields == <<"src", "dst", "gateway", "encap", "iif", "oif">>

FieldIndex(ref) == CHOOSE i \in 1..Len(KeyFields) : KeyFields[i] = ref

(* The order in which a nexthop given as a dict yields its fields.         *)
NhOrder == <<"gateway", "iif", "oif", "hops">>

NhKeys(S) == {S[i].key : i \in 1..Len(S)}

NhAt(S, key) == CHOOSE i \in 1..Len(S) : S[i].key = key

RemoveAt(S, i) == SubSeq(S, 1, i - 1) \o SubSeq(S, i + 1, Len(S))

(* LinkedSet.add(key, raw): a key the set holds already is left alone.     *)
ls_add(S, key, raw) ==
    IF key \in NhKeys(S) THEN S ELSE Append(S, [key |-> key, raw |-> raw])

(* LinkedSet.remove(key); ok is FALSE for the KeyError.                    *)
ls_remove(S, key) ==
    IF key \in NhKeys(S)
    THEN [ok |-> TRUE, set |-> RemoveAt(S, NhAt(S, key))]
    ELSE [ok |-> FALSE, set |-> S]

(* msg.get(field, None) for every field that make_key reads.               *)
nh_dict(prime) ==
    [f \in DOMAIN NewRoute |->
        IF f \in DOMAIN prime THEN prime[f] ELSE NewRoute[f]]

(* NextHopSet.__make_nh for a nexthop given as a dict or a Route.          *)
make_nh(prime) == make_key(nh_dict(prime))

(* NextHopSet.add: the entry under the required prefix padded with None    *)
(* is deleted, then the nexthop is added under its own key.                *)
nh_add(S, prime) ==
    LET key == make_nh(prime)
        skey == RequiredPrefix(key)
        S1 == IF skey \in NhKeys(S) THEN RemoveAt(S, NhAt(S, skey)) ELSE S
    IN  ls_add(S1, key, prime)

(* The inner loop of the fallback of remove: whether the key has every     *)
(* set field of prime ("fits"), differs in one, or lacks one ("error",     *)
(* the KeyError of dct[ref]).                                              *)
RECURSIVE scan_refs(_, _, _)
scan_refs(prime, key, i) ==
    IF i > Len(NhOrder) THEN "fits"
    ELSE LET ref == NhOrder[i]
         IN  IF ref \notin DOMAIN prime \/ ~Truthy(prime[ref])
             THEN scan_refs(prime, key, i + 1)
             ELSE IF \A j \in 1..Len(KeyFields) : KeyFields[j] # ref
                  THEN "error"
             ELSE IF key[FieldIndex(ref)] # prime[ref] THEN "differs"
             ELSE scan_refs(prime, key, i + 1)

(* The outer loop: the position of the first key that fits, 0 when there   *)
(* is none, -1 when a KeyError ends the loop.                              *)
RECURSIVE scan_keys(_, _, _)
scan_keys(S, prime, i) ==
    IF i > Len(S) THEN 0
    ELSE LET res == scan_refs(prime, S[i].key, 1)
         IN  IF res = "fits" THEN i
             ELSE IF res = "error" THEN 0 - 1
             ELSE scan_keys(S, prime, i + 1)

(* NextHopSet.remove by the key of prime only, without the scan.           *)
nh_remove_exact_only(S, prime) == ls_remove(S, make_nh(prime))

(* NextHopSet.remove: by the key of prime, else the first entry whose key  *)
(* has every set field of prime; ok is FALSE for the KeyError.             *)
nh_remove(S, prime) ==
    LET exact == ls_remove(S, make_nh(prime))
        i == scan_keys(S, prime, 1)
    IN  IF exact.ok THEN exact
        ELSE IF i > 0 THEN ls_remove(S, S[i].key)
        ELSE [ok |-> FALSE, set |-> S]

(* NextHopSet(prime): the set of the nexthops of a list.                   *)
RECURSIVE NextHopSet(_)
NextHopSet(primes) ==
    IF primes = <<>> THEN <<>>
    ELSE nh_add(NextHopSet(SubSeq(primes, 1, Len(primes) - 1)),
                primes[Len(primes)])

(* NextHopSet.__sub__: the entries of A whose key B has not, added to a    *)
(* new set in the order the set of these keys yields them.                 *)
nh_sub(A, B, order) ==
    NextHopSet([i \in 1..Len(order) |-> A[NhAt(A, order[i])].raw])

(* The orders a Python set of keys can yield its members in.               *)
Orders(K) ==
    {o \in [1..Cardinality(K) -> K] :
        \A i, j \in 1..Cardinality(K) : i # j => o[i] # o[j]}

(* The keys of A - B.                                                      *)
sub_keys(A, B) == NhKeys(A) \ NhKeys(B)

----------------------------------------------------------------------------
(* Loading a message.                                                      *)

(* The nexthop records of the multipath attribute of a message.            *)
msg_multipath(msg) ==
    IF "RTA_MULTIPATH" \in DOMAIN msg THEN msg.RTA_MULTIPATH ELSE <<>>

(* The nexthop a record of the multipath attribute is loaded into: a Route *)
(* with dst, ipdb_scope, ipdb_priority, multipath and metrics deleted.     *)
load_nh(record) ==
    [gateway |-> get_attr(record, "RTA_GATEWAY"), oif |-> record.oif,
     hops |-> record.hops]

(* for nh in self['multipath']: self.del_nh(nh)                            *)
RECURSIVE cleanup_nh(_, _)
cleanup_nh(S, nhs) ==
    IF nhs = <<>> THEN S
    ELSE cleanup_nh(nh_remove(S, Head(nhs)).set, Tail(nhs))

(* self['multipath'].add(nh) for every record of the attribute.            *)
RECURSIVE add_records(_, _)
add_records(S, records) ==
    IF records = <<>> THEN S
    ELSE add_records(nh_add(S, load_nh(Head(records))), Tail(records))

(* The multipath part of load_netlink without the cleanup of the set.      *)
load_multipath_merge(S, msg) == add_records(S, msg_multipath(msg))

(* The multipath part of load_netlink: every nexthop of the set is         *)
(* removed, then the records of the message are added.                     *)
load_multipath(S, msg) ==
    add_records(cleanup_nh(S, [i \in 1..Len(S) |-> S[i].raw]),
                msg_multipath(msg))

(* The attributes a message sets by the generic branch of the merge.       *)
PlainAttrs ==
    [src |-> "RTA_SRC", gateway |-> "RTA_GATEWAY", iif |-> "RTA_IIF",
     oif |-> "RTA_OIF", priority |-> "RTA_PRIORITY"]

(* BaseRoute.load_netlink past the test of the scope.                      *)
merge_netlink(rt, msg) ==
      [f \in DOMAIN rt |->
         CASE f = "ipdb_scope" -> "system"
           [] f = "family" -> msg.family
           [] f = "table" -> msg.table
           [] f = "multipath" -> load_multipath(rt.multipath, msg)
           [] f = "dst" ->
                IF get_attr(msg, "RTA_DST") # None
                THEN Fmt(get_attr(msg, "RTA_DST"), msg.dst_len)
                ELSE Default
           [] f = "metrics" ->
                IF get_attr(msg, "RTA_METRICS") # None
                THEN [mtu |-> get_attr(msg, "RTA_METRICS")]
                ELSE EmptyMetrics
           [] f = "encap" ->
                IF get_attr(msg, "RTA_ENCAP") # None
                THEN [type |-> get_attr(msg, "RTA_ENCAP_TYPE"),
                      labels |-> get_attr(msg, "RTA_ENCAP")]
                ELSE EmptyEncap
           [] OTHER ->
                IF get_attr(msg, PlainAttrs[f]) # None
                THEN get_attr(msg, PlainAttrs[f])
                ELSE rt[f]]

(* load_netlink that merges the message whatever the scope.                *)
load_netlink_any_scope(rt, msg) == merge_netlink(rt, msg)

(* BaseRoute.load_netlink: a locked Route is not touched.                  *)
load_netlink(rt, msg) ==
    IF rt.ipdb_scope = "locked" THEN rt ELSE merge_netlink(rt, msg)

----------------------------------------------------------------------------
(* Routing table.                                                          *)

NotFound == <<>>

(* The 'key' of a record that was never indexed (None in the code).        *)
NoKey == <<>>

(* describe for a key tuple by full match only.                            *)
describe_exact(idx, target) ==
    IF target \in DOMAIN idx THEN target ELSE NotFound

(* RoutingTable.describe for a key tuple: the slot of the record found,    *)
(* by full match and then without iif and oif; NotFound is the KeyError.   *)
describe(idx, target) ==
    IF target \in DOMAIN idx THEN target
    ELSE IF RequiredPrefix(target) \in DOMAIN idx THEN RequiredPrefix(target)
    ELSE NotFound

(* describe for a netlink message with the fallback of the key tuples.     *)
describe_msg_fallback(idx, msg) == describe(idx, make_key_msg(msg))

(* RoutingTable.describe for a netlink message: by its key, exactly.       *)
describe_msg(idx, msg) ==
    IF make_key_msg(msg) \in DOMAIN idx THEN make_key_msg(msg) ELSE NotFound

(* reindex without the deletion of the slot the record was cached under.   *)
reindex_keep(idx, cached, route, key) ==
    Put(idx, key, [route |-> route, key |-> key])

(* The tail of RoutingTable.__setitem__: index the record under the key    *)
(* of its route, and drop the slot it was cached under if that differs.    *)
reindex(idx, cached, route, key) ==
    IF cached = NoKey THEN Put(idx, key, [route |-> route, key |-> key])
    ELSE IF cached # key
         THEN Del(Put(idx, key, [route |-> route, key |-> key]), cached)
         ELSE Put(idx, key, [route |-> route, key |-> key])

(* RoutingTable.__setitem__(key, msg): merge a message into the record     *)
(* found for the key, or into a new Route (object id fresh).               *)
setitem_msg(R, idx, key, msg, fresh) ==
    LET slot == describe(idx, key)
        found == slot # NotFound
        rid == IF found THEN idx[slot].route ELSE fresh
        cached == IF found THEN idx[slot].key ELSE NoKey
        old == IF found THEN R[rid] ELSE NewRoute
        new == load_netlink(old, msg)
    IN  [routes |-> Put(R, rid, new),
         idx |-> reindex(idx, cached, rid, make_key(new))]

(* RoutingTable.__setitem__(key, route): attach a Route to the record      *)
(* found for the key, or to a new record.                                  *)
setitem_route(R, idx, key, rid) ==
    LET slot == describe(idx, key)
        cached == IF slot # NotFound THEN idx[slot].key ELSE NoKey
    IN  reindex(idx, cached, rid, make_key(R[rid]))

(* RoutingTable.__delitem__(msg); ok is FALSE for the KeyError.            *)
delitem_msg(R, idx, msg) ==
    LET slot == describe_msg(idx, msg)
        key == IF slot # NotFound THEN make_key(R[idx[slot].route]) ELSE NotFound
    IN  IF key # NotFound /\ key \in DOMAIN idx
        THEN [ok |-> TRUE, idx |-> Del(idx, key)]
        ELSE [ok |-> FALSE, idx |-> idx]

----------------------------------------------------------------------------
(* Routing table set.                                                      *)

(* A table id given to RoutingTableSet as ignore_rtables.                   *)
IgnoredTable == "300"

ignore_rtables == {IgnoredTable}

EmptyIdx == [k \in {} |-> [route |-> 0, key |-> NoKey]]

(* RoutingTableSet.__init__                                                *)
InitTables == [t \in {DefaultTable} |-> EmptyIdx]

(* The table a notification belongs to.                                    *)
table_of(msg) ==
    IF msg.family = AF_MPLS THEN "mpls"
    ELSE IF msg.table = "252" THEN get_attr(msg, "RTA_TABLE")
    ELSE msg.table

(* The Route objects something still refers to: the index records, the     *)
(* open transactions and the frames of the commit in progress.  An object  *)
(* nothing refers to is collected, and its id is free again.               *)
Indexed(T) == UNION {{T[t][k].route : k \in DOMAIN T[t]} : t \in DOMAIN T}

Held(X, C) == (DOMAIN X) \cup {C[i].route : i \in 1..Len(C)}

Sweep(R, T, X, C) ==
    [r \in (DOMAIN R) \cap (Indexed(T) \cup Held(X, C)) |-> R[r]]

HasFresh(R) == RouteIds \ DOMAIN R # {}

Fresh(R) == CHOOSE r \in RouteIds \ DOMAIN R :
                \A q \in RouteIds \ DOMAIN R : r <= q

(* load_delroute without the test of the scope of the record.              *)
load_delroute_any_scope(R, T, msg) ==
    LET t == table_of(msg)
        slot == IF t \in DOMAIN T THEN describe_msg(T[t], msg) ELSE NotFound
        d == delitem_msg(R, T[t], msg)
    IN  IF slot = NotFound \/ ~d.ok THEN [routes |-> R, tables |-> T]
        ELSE [routes |-> [R EXCEPT ![T[t][slot].route].ipdb_scope = "detached"],
              tables |-> [T EXCEPT ![t] = d.idx]]

(* RoutingTableSet.load_netlink, RTM_DELROUTE: locate the record and       *)
(* delete it unless locked or shadowed; every error is logged and dropped. *)
load_delroute(R, T, msg) ==
    LET t == table_of(msg)
        slot == IF t \in DOMAIN T THEN describe_msg(T[t], msg) ELSE NotFound
        rid == T[t][slot].route
        d == delitem_msg(R, T[t], msg)
    IN  IF slot = NotFound THEN [routes |-> R, tables |-> T]
        ELSE IF R[rid].ipdb_scope \in {"locked", "shadow"}
             THEN [routes |-> R, tables |-> T]
        ELSE IF ~d.ok THEN [routes |-> R, tables |-> T]
        ELSE [routes |-> [R EXCEPT ![rid].ipdb_scope = "detached"],
              tables |-> [T EXCEPT ![t] = d.idx]]

(* RoutingTableSet.load_netlink, RTM_NEWROUTE: create the table on first   *)
(* use and load the message into it.                                       *)
load_newroute(R, T, msg, fresh) ==
    LET t == table_of(msg)
        T1 == IF t \in DOMAIN T THEN T ELSE Put(T, t, EmptyIdx)
        s == setitem_msg(R, T1[t], make_key_msg(msg), msg, fresh)
    IN  [routes |-> s.routes, tables |-> [T1 EXCEPT ![t] = s.idx]]

(* RoutingTableSet.load_netlink without the test of ignore_rtables.        *)
rts_load_netlink_no_ignore(R, T, msg, fresh) ==
    IF msg.event = "RTM_DELROUTE" THEN load_delroute(R, T, msg)
    ELSE load_newroute(R, T, msg, fresh)

(* RoutingTableSet.load_netlink                                            *)
rts_load_netlink(R, T, msg, fresh) ==
    IF table_of(msg) \in ignore_rtables THEN [routes |-> R, tables |-> T]
    ELSE IF msg.event = "RTM_DELROUTE" THEN load_delroute(R, T, msg)
    ELSE load_newroute(R, T, msg, fresh)

(* Whether loading the message constructs a new Route object.              *)
NeedsFresh(T, msg) ==
    /\ table_of(msg) \notin ignore_rtables
    /\ msg.event = "RTM_NEWROUTE"
    /\ \/ table_of(msg) \notin DOMAIN T
       \/ describe(T[table_of(msg)], make_key_msg(msg)) = NotFound

----------------------------------------------------------------------------
(* Messages of the authority.                                              *)

Msg(event, dst, len, gateway, oif, priority, mtu) ==
    [event |-> event, family |-> AF_INET, table |-> DefaultTable,
     dst_len |-> len, RTA_DST |-> dst, RTA_GATEWAY |-> gateway,
     RTA_OIF |-> oif, RTA_PRIORITY |-> priority, RTA_METRICS |-> mtu]

(* Notifications caused by other users of the authority.                   *)
ExtMsgs ==
    {Msg("RTM_NEWROUTE", d, l, g, None, None, m) :
        d \in Addrs, l \in PrefixLens, g \in Gateways, m \in Mtus \cup {None}}
    \cup
    {Msg("RTM_DELROUTE", d, l, g, None, None, None) :
        d \in Addrs, l \in PrefixLens, g \in Gateways}

(* What RoutingTableSet.add is called with.                                *)
AddSpecs ==
    {[dst |-> Fmt(d, l), gateway |-> g] :
        d \in Addrs, l \in PrefixLens, g \in Gateways}

----------------------------------------------------------------------------
(* Transactional substrate, authority and wait mechanism (collaborators).  *)

(* Transactional.pick: a snapshot of the object.                           *)
pick(rt) == rt

SimpleFields ==
    {"family", "table", "src", "dst", "gateway", "iif", "oif", "priority"}

NestedFields == {"metrics", "encap"}

(* The nested part of transaction - snapshot: the changed sub-fields.      *)
nested_diff(tn, sn) == [k \in {j \in DOMAIN tn : tn[j] # sn[j]} |-> tn[k]]

(* transaction - snapshot: the changed fields with the transaction's       *)
(* values; 'ipdb_scope' is taken out of it by commit.                      *)
diff(tn, sn) ==
    [f \in {g \in SimpleFields \cup NestedFields \cup {"multipath"} :
                tn[g] # sn[g]}
        |-> IF f \in NestedFields THEN nested_diff(tn[f], sn[f]) ELSE tn[f]]

(* any(mapping.values()) for a mapping of scalars.                         *)
any_values(m) == \E k \in DOMAIN m : Truthy(m[k])

(* any(diff.values()): a scalar counts by its truth value, a nested        *)
(* mapping or a nexthop set when it is not empty.                          *)
any_diff(d) ==
    \E f \in DOMAIN d :
        IF f \in NestedFields THEN DOMAIN d[f] # {}
        ELSE IF f = "multipath" THEN d[f] # <<>>
        ELSE Truthy(d[f])

(* diff.get(f, {}) of a nested field.                                      *)
diff_get(d, f) == IF f \in DOMAIN d THEN d[f] ELSE EmptyMap

(* The attributes whose confirmation wait_all_targets waits for: those     *)
(* the transaction changes, and for a route not yet known to the           *)
(* authority every attribute the transaction sets.                         *)
targets(devop, tn, sn) ==
    IF devop = "add"
    THEN {f \in {"dst", "gateway", "oif", "priority"} : Truthy(tn[f])}
            \cup {f \in {"metrics"} : any_values(tn[f])}
    ELSE {f \in (DOMAIN diff(tn, sn)) \ {"family", "table"} :
            f \in NestedFields \/ tn[f] # None}

(* IPRouteRequest: the address and prefix length of a rendered dst.        *)
AddrOf(dst) ==
    IF \E a \in Addrs, l \in PrefixLens : Fmt(a, l) = dst
    THEN CHOOSE a \in Addrs : \E l \in PrefixLens : Fmt(a, l) = dst
    ELSE None

LenOf(dst) ==
    IF \E a \in Addrs, l \in PrefixLens : Fmt(a, l) = dst
    THEN CHOOSE l \in PrefixLens : \E a \in Addrs : Fmt(a, l) = dst
    ELSE 0

(* The notification of a route with the given values.                      *)
MsgOf(event, rt, oif) ==
    Msg(event, AddrOf(rt.dst), LenOf(rt.dst), rt.gateway, oif, rt.priority,
        rt.metrics.mtu)

(* The route the authority holds when it has applied the fields S of the   *)
(* transaction to the route it held before.                                *)
Applied(tn, sn, S) == [f \in DOMAIN tn |-> IF f \in S THEN tn[f] ELSE sn[f]]

(* The notifications an accepted add/set request can cause: the route as   *)
(* requested; the authority chooses the interface of a new route that      *)
(* names none.                                                             *)
AcceptedMsgs(devop, tn) ==
    {MsgOf("RTM_NEWROUTE", tn, o) :
        o \in IF devop = "add" /\ tn.oif = None THEN Oifs \cup {None}
              ELSE {tn.oif}}

(* The notifications a failing set request can cause: the route with a     *)
(* part of the changed fields applied.                                     *)
PartialMsgs(devop, tn, sn) ==
    IF devop = "add" THEN {}
    ELSE {MsgOf("RTM_NEWROUTE", Applied(tn, sn, S), Applied(tn, sn, S).oif) :
            S \in (SUBSET ((DOMAIN diff(tn, sn)) \ {"family", "table"})) \ {{}}}

(* Whether a notification matches a watchdog key.                          *)
wd_match(msg, key) ==
    /\ msg.event = "RTM_DELROUTE"
    /\ "dst" \in DOMAIN key =>
          /\ get_attr(msg, "RTA_DST") # None
          /\ Fmt(get_attr(msg, "RTA_DST"), msg.dst_len) = key.dst
    /\ \A f \in (DOMAIN key) \cap (DOMAIN PlainAttrs) :
          get_attr(msg, PlainAttrs[f]) = key[f]

----------------------------------------------------------------------------
(* State machine.                                                          *)

NoWd == [armed |-> FALSE, seen |-> FALSE, key |-> EmptyMap]

(* threading.Lock() of every RoutingTable: None while no thread holds it.  *)
NoLock == [t \in {DefaultTable, OtherTable} |-> None]

Init ==
    /\ routes = [r \in {} |-> NewRoute]
    /\ tx = [r \in {} |-> NewRoute]
    /\ tables = InitTables
    /\ queue = <<>>
    /\ cm = <<>>
    /\ requests = <<>>
    /\ wd = NoWd
    /\ used = [commits |-> 0, external |-> 0]
    /\ lock = NoLock

Idle == cm = <<>>

(* The user stages changes while no commit runs, to commit them.          *)
CanEdit == Idle /\ used.commits < MaxCommits

(* The frame of the commit call that is executing.                         *)
Top == cm[Len(cm)]

(* The caller is about to get the result of its commit call.               *)
Done == Len(cm) = 1 /\ Top.pc \in {"returned", "raised"}

(* RoutingTableSet.add(spec): a Route of scope 'create' with its           *)
(* transaction begun, indexed under its key.                               *)
Add(spec) ==
    /\ CanEdit
    /\ DOMAIN tx = {}
    /\ HasFresh(routes)
    /\ LET rid == Fresh(routes)
           rt == [NewRoute EXCEPT !.dst = spec.dst, !.gateway = spec.gateway,
                                  !.ipdb_scope = "create"]
           t == DefaultTable
           R1 == Put(routes, rid, rt)
           X1 == Put(tx, rid, rt)
           T1 == [tables EXCEPT ![t] = setitem_route(R1, tables[t], make_key(rt), rid)]
       IN  /\ tx' = X1
           /\ tables' = T1
           /\ routes' = Sweep(R1, T1, X1, cm)
    /\ UNCHANGED <<queue, cm, requests, wd, used, lock>>

(* A notification of the authority caused by another of its users.         *)
External(msg) ==
    /\ ~Done
    /\ used.external < MaxExternal
    /\ Len(queue) < MaxQueue
    /\ queue' = Append(queue, msg)
    /\ used' = [used EXCEPT !.external = @ + 1]
    /\ UNCHANGED <<routes, tx, tables, cm, requests, wd, lock>>

(* RoutingTableSet.load_netlink for the next notification.                 *)
Deliver ==
    /\ queue # <<>>
    /\ ~Done
    /\ LET msg == Head(queue)
       IN  /\ NeedsFresh(tables, msg) => HasFresh(routes)
           /\ \E fresh \in {IF HasFresh(routes) THEN Fresh(routes) ELSE 0} :
              \E s \in {rts_load_netlink(routes, tables, msg, fresh)} :
                  /\ tables' = s.tables
                  /\ routes' = Sweep(s.routes, s.tables, tx, cm)
           /\ wd' = IF wd.armed /\ wd_match(msg, wd.key)
                    THEN [wd EXCEPT !.seen = TRUE] ELSE wd
    /\ queue' = Tail(queue)
    /\ UNCHANGED <<tx, cm, requests, used>>

(* The ingestion path delivers the next notification: the table is locked  *)
(* for the whole of the lookup and the update of its index.                *)
Ingest == Deliver /\ UNCHANGED lock

----------------------------------------------------------------------------
(* The user's edits (one user thread: it edits while no commit runs).      *)

Edits ==
    {[field |-> "gateway", value |-> g] : g \in Gateways}
        \cup {[field |-> "priority", value |-> v] : v \in Priorities \cup {None}}
        \cup {[field |-> "metrics", value |-> [mtu |-> v]] : v \in Mtus \cup {None}}

(* The transaction an edit goes to: the current one, or one begun now.     *)
current_tx(r) == IF r \in DOMAIN tx THEN tx[r] ELSE pick(routes[r])

(* route[field] = value inside a transaction.                              *)
Edit(r, ed) ==
    /\ CanEdit
    /\ r \in DOMAIN routes
    /\ DOMAIN tx \subseteq {r}
    /\ current_tx(r)[ed.field] # ed.value
    /\ tx' = Put(tx, r, [current_tx(r) EXCEPT ![ed.field] = ed.value])
    /\ UNCHANGED <<routes, tables, queue, cm, requests, wd, used, lock>>

(* BaseRoute.remove and BaseRoute.shadow: stage the scope.                 *)
Stage(r, scope) ==
    /\ CanEdit
    /\ r \in DOMAIN routes
    /\ DOMAIN tx \subseteq {r}
    /\ current_tx(r).ipdb_scope # scope
    /\ tx' = Put(tx, r, [current_tx(r) EXCEPT !.ipdb_scope = scope])
    /\ UNCHANGED <<routes, tables, queue, cm, requests, wd, used, lock>>

(* Transactional.drop by the user: the transaction is given up.            *)
Drop(r) ==
    /\ Idle
    /\ r \in DOMAIN tx
    /\ tx' = Del(tx, r)
    /\ routes' = Sweep(routes, tables, tx', cm)
    /\ UNCHANGED <<tables, queue, cm, requests, wd, used, lock>>

----------------------------------------------------------------------------
(* BaseRoute.commit.                                                       *)

SetTop(C, f) == [C EXCEPT ![Len(C)] = f]

(* tables[self['table'] or 254]                                            *)
table_id(rt) == IF Truthy(rt.table) THEN rt.table ELSE DefaultTable

(* The two cleanup flags: metrics or encap set in the snapshot and not     *)
(* set by the diff.                                                        *)
cleanup_flags(rt, sn, d) ==
    IF rt.family # AF_MPLS
    THEN {any_values(sn.metrics) /\ ~any_values(diff_get(d, "metrics")),
          any_values(sn.encap) /\ ~any_values(diff_get(d, "encap"))}
    ELSE {}

(* must_request with the test of devop for any operation, not for 'add'.   *)
must_request_any_devop(d, cleanup, devop) ==
    any_diff(d) \/ (TRUE \in cleanup) \/ devop \in {"add", "set"}

(* Whether the commit issues the add/set request.                          *)
must_request(d, cleanup, devop) ==
    any_diff(d) \/ (TRUE \in cleanup) \/ devop = "add"

(* Whether the commit goes through the removal step.                       *)
must_remove(tn, rollback) ==
    \/ tn.ipdb_scope \in {"shadow", "remove"}
    \/ (tn.ipdb_scope = "create" /\ rollback)

(* The frame of a commit call up to the choice of its first step.          *)
enter(rt, r, tn, rollback, drop) ==
    LET devop == IF rt.ipdb_scope # "system" THEN "add" ELSE "set"
        sn == pick(rt)
        d == diff(tn, sn)
        cleanup == cleanup_flags(rt, sn, d)
        old_key == make_key(rt)
        new_key == make_key(tn)
    IN  [pc |-> IF must_request(d, cleanup, devop)
                THEN IF old_key # new_key THEN "reserve" ELSE "request"
                ELSE IF must_remove(tn, rollback) THEN "removal" ELSE "finish",
         route |-> r, rollback |-> rollback, drop |-> drop, devop |-> devop,
         transaction |-> tn, snapshot |-> sn,
         old_key |-> old_key, new_key |-> new_key,
         route_index |-> table_id(rt),
         move |-> must_request(d, cleanup, devop) /\ old_key # new_key,
         e |-> None, error |-> None, attached |-> FALSE,
         rollbacks |-> 0, rolled_back |-> FALSE, occupant |-> 0,
         issued |-> {}, observed |-> {}]

Running(pcs) == cm # <<>> /\ Top.pc \in pcs

(* route.commit() by the user, on the current transaction.                 *)
CommitStart(r) ==
    /\ Idle
    /\ r \in DOMAIN tx
    /\ used.commits < MaxCommits
    /\ cm' = <<enter(routes[r], r, tx[r], FALSE, TRUE)>>
    /\ requests' = <<>>
    /\ wd' = NoWd
    /\ used' = [used EXCEPT !.commits = @ + 1]
    /\ UNCHANGED <<routes, tx, tables, queue, lock>>

(* The exception handler is entered with the error e.                      *)
Raise(f, e) == [f EXCEPT !.pc = "except", !.e = e]

(* Reserve without the test that new_key is free.                          *)
Reserve_unchecked ==
    /\ Running({"reserve"})
    /\ tables' = [tables EXCEPT ![Top.route_index] =
                      Put(@, Top.new_key,
                          [key |-> Top.new_key, route |-> Top.route])]
    /\ cm' = SetTop(cm, [Top EXCEPT !.pc = "request"])
    /\ UNCHANGED <<routes, tx, queue, requests, wd, used, lock>>

(* Reserve with the entry written before the test that raises.             *)
Reserve_write_first ==
    /\ Running({"reserve"})
    /\ tables' = [tables EXCEPT ![Top.route_index] =
                      Put(@, Top.new_key,
                          [key |-> Top.new_key, route |-> Top.route])]
    /\ cm' = SetTop(cm, IF Top.new_key \notin DOMAIN tables[Top.route_index]
                        THEN [Top EXCEPT !.pc = "request"]
                        ELSE [Raise(Top, "CommitException") EXCEPT
                                !.occupant =
                                    tables[Top.route_index][Top.new_key].route])
    /\ UNCHANGED <<routes, tx, queue, requests, wd, used, lock>>

(* Reserve the new key in the index, or raise the conflict.                *)
Reserve ==
    /\ Running({"reserve"})
    /\ LET f == Top
           t == f.route_index
       IN  IF f.new_key \notin DOMAIN tables[t]
           THEN /\ tables' = [tables EXCEPT ![t] =
                       Put(tables[t], f.new_key,
                           [key |-> f.new_key, route |-> f.route])]
                /\ cm' = SetTop(cm, [f EXCEPT !.pc = "request"])
           ELSE /\ cm' = SetTop(cm, [Raise(f, "CommitException") EXCEPT
                                        !.occupant = tables[t][f.new_key].route])
                /\ UNCHANGED tables
    /\ UNCHANGED <<routes, tx, queue, requests, wd, used, lock>>

(* after_request without the wait for the targets.                         *)
after_request_no_wait(f) ==
    IF f.old_key # f.new_key THEN "free"
    ELSE IF must_remove(f.transaction, f.rollback) THEN "removal"
    ELSE "finish"

(* The step after the add/set request was accepted.                        *)
after_request(f) == IF f.old_key # f.new_key THEN "free" ELSE "wait"

(* self.nl.route(devop, **transaction), accepted by the authority.         *)
RequestOk ==
    /\ Running({"request"})
    /\ Len(queue) < MaxQueue
    /\ \E msg \in AcceptedMsgs(Top.devop, Top.transaction) :
          queue' = Append(queue, msg)
    /\ requests' = Append(requests, [op |-> Top.devop, args |-> Top.transaction])
    /\ cm' = SetTop(cm, [Top EXCEPT !.pc = after_request(Top),
                                     !.issued = @ \cup {Top.devop}])
    /\ UNCHANGED <<routes, tx, tables, wd, used, lock>>

(* self.nl.route(devop, **transaction) raises; the authority may have      *)
(* applied a part of a set request before.                                 *)
RequestFail ==
    /\ Running({"request"})
    /\ \/ UNCHANGED queue
       \/ /\ Len(queue) < MaxQueue
          /\ \E msg \in PartialMsgs(Top.devop, Top.transaction, Top.snapshot) :
                queue' = Append(queue, msg)
    /\ requests' = Append(requests, [op |-> Top.devop, args |-> Top.transaction])
    /\ cm' = SetTop(cm, [Raise(Top, "NetlinkError") EXCEPT
                            !.issued = @ \cup {Top.devop}])
    /\ UNCHANGED <<routes, tx, tables, wd, used, lock>>

(* del route_index[old_key]                                                *)
Free ==
    /\ Running({"free"})
    /\ LET f == Top
           t == f.route_index
       IN  IF f.old_key \in DOMAIN tables[t]
           THEN /\ tables' = [tables EXCEPT ![t] = Del(tables[t], f.old_key)]
                /\ cm' = SetTop(cm, [f EXCEPT !.pc = "wait"])
           ELSE /\ cm' = SetTop(cm, Raise(f, "KeyError"))
                /\ UNCHANGED tables
    /\ routes' = Sweep(routes, tables', tx, cm')
    /\ UNCHANGED <<tx, queue, requests, wd, used, lock>>

(* Whether the authority has confirmed every target of the transaction.    *)
confirmed(f) ==
    \A a \in targets(f.devop, f.transaction, f.snapshot) :
        routes[f.route][a] = f.transaction[a]

(* The step after the add/set part of the commit.                          *)
after_wait(f) ==
    IF must_remove(f.transaction, f.rollback) THEN "removal" ELSE "finish"

(* transaction.wait_all_targets() returns.                                 *)
WaitOk ==
    /\ Running({"wait"})
    /\ confirmed(Top)
    /\ cm' = SetTop(cm, [Top EXCEPT !.pc = after_wait(Top),
                                     !.observed = @ \cup {"targets"}])
    /\ UNCHANGED <<routes, tx, tables, queue, requests, wd, used, lock>>

(* transaction.wait_all_targets() gives up and raises.                     *)
WaitFail ==
    /\ Running({"wait"})
    /\ ~confirmed(Top)
    /\ cm' = SetTop(cm, Raise(Top, "WaitError"))
    /\ UNCHANGED <<routes, tx, tables, queue, requests, wd, used, lock>>

(* The scope a shadow commit gives the route at a point of the removal.    *)
shadow_scope(f, rt, scope) ==
    IF f.transaction.ipdb_scope = "shadow"
    THEN [rt EXCEPT !.ipdb_scope = scope]
    ELSE rt

(* The start of the removal: lock a route that is being shadowed and       *)
(* create the watchdog for its RTM_DELROUTE.                               *)
Removal ==
    /\ Running({"removal"})
    /\ routes' = [routes EXCEPT ![Top.route] = shadow_scope(Top, @, "locked")]
    /\ wd' = [armed |-> TRUE, seen |-> FALSE, key |-> WatchdogKey(Top.snapshot)]
    /\ cm' = SetTop(cm, [Top EXCEPT !.pc = "delete"])
    /\ UNCHANGED <<tx, tables, queue, requests, used, lock>>

(* self.nl.route('delete', **snapshot) is accepted; every route message of *)
(* the response goes to ipdb._route_del, and the authority notifies.       *)
DeleteAccepted ==
    /\ Running({"delete"})
    /\ Len(queue) < MaxQueue
    /\ \E msg \in {MsgOf("RTM_DELROUTE", Top.snapshot, Top.snapshot.oif)} :
       \E s \in {rts_load_netlink(routes, tables, msg, 0)} :
           /\ queue' = Append(queue, msg)
           /\ cm' = SetTop(cm, [Top EXCEPT !.pc = "wdwait",
                                            !.issued = @ \cup {"delete"}])
           /\ \/ /\ tables' = s.tables
                 /\ routes' = Sweep(s.routes, s.tables, tx, cm')
              \/ UNCHANGED <<routes, tables>>
    /\ requests' = Append(requests, [op |-> "delete", args |-> Top.snapshot])
    /\ UNCHANGED <<tx, wd, used>>

(* The delete request with the locked section of RoutingTable.__delitem__  *)
(* inside the step.                                                        *)
DeleteOk == DeleteAccepted /\ UNCHANGED lock

(* self.nl.route('delete', **snapshot) raises.                             *)
DeleteFail ==
    /\ Running({"delete"})
    /\ requests' = Append(requests, [op |-> "delete", args |-> Top.snapshot])
    /\ cm' = SetTop(cm, [Raise(Top, "NetlinkError") EXCEPT
                            !.issued = @ \cup {"delete"}])
    /\ UNCHANGED <<routes, tx, tables, queue, wd, used, lock>>

(* wd.wait() returns; a shadowed route gets its scope.                     *)
WdOk ==
    /\ Running({"wdwait"})
    /\ wd.seen
    /\ routes' = [routes EXCEPT ![Top.route] = shadow_scope(Top, @, "shadow")]
    /\ cm' = SetTop(cm, [Top EXCEPT !.pc = "finish",
                                     !.observed = @ \cup {"delroute"}])
    /\ UNCHANGED <<tx, tables, queue, requests, wd, used, lock>>

(* wd.wait() gives up and raises.                                          *)
WdFail ==
    /\ Running({"wdwait"})
    /\ ~wd.seen
    /\ cm' = SetTop(cm, Raise(Top, "WaitError"))
    /\ UNCHANGED <<routes, tx, tables, queue, requests, wd, used, lock>>

(* self.drop(transaction.uid) of the caller's transaction.                 *)
drop(X, r) == Del(X, r)

(* handler without the test of the rollback flag.                          *)
handler_no_flag(f) ==
    IF f.devop = "add" THEN "invalidate" ELSE "rollback"

(* Which branch of the exception handler a frame takes.                    *)
handler(f) ==
    IF f.devop = "add" THEN "invalidate"
    ELSE IF ~f.rollback THEN "rollback"
    ELSE "fatal"

(* except, devop 'add': the route becomes invalid and the index entry      *)
(* under its key is deleted; a missing entry raises out of the handler.    *)
ExceptAdd ==
    /\ Running({"except"})
    /\ handler(Top) = "invalidate"
    /\ LET f == Top
           rt == routes[f.route]
           t == table_id(rt)
           route_key == make_key(rt)
           R1 == [routes EXCEPT ![f.route].ipdb_scope = "invalid"]
       IN  IF route_key \in DOMAIN tables[t]
           THEN /\ tables' = [tables EXCEPT ![t] = Del(tables[t], route_key)]
                /\ cm' = SetTop(cm, [f EXCEPT !.pc = "finish", !.error = f.e])
                /\ routes' = Sweep(R1, tables', tx, cm')
           ELSE /\ cm' = SetTop(cm, [f EXCEPT !.pc = "raised", !.error = "KeyError"])
                /\ routes' = R1
                /\ UNCHANGED tables
    /\ UNCHANGED <<tx, queue, requests, wd, used, lock>>

(* except, devop 'set', not a rollback: commit the snapshot as a rollback. *)
ExceptRollback ==
    /\ Running({"except"})
    /\ handler(Top) = "rollback"
    /\ cm' = Append(SetTop(cm, [Top EXCEPT !.pc = "rollback",
                                           !.rollbacks = @ + 1]),
                    enter(routes[Top.route], Top.route, Top.snapshot, TRUE, FALSE))
    /\ UNCHANGED <<routes, tx, tables, queue, requests, wd, used, lock>>

(* except, in a rollback: drop the transaction if it is the caller's and   *)
(* raise the fatal error that wraps the cause.                             *)
ExceptFatal ==
    /\ Running({"except"})
    /\ handler(Top) = "fatal"
    /\ tx' = IF Top.drop THEN drop(tx, Top.route) ELSE tx
    /\ cm' = SetTop(cm, [Top EXCEPT !.pc = "raised", !.error = "RuntimeError"])
    /\ UNCHANGED <<routes, tables, queue, requests, wd, used, lock>>

(* The end of commit: drop the caller's transaction, then raise the error  *)
(* with the transaction attached, or return.                               *)
Finish ==
    /\ Running({"finish"})
    /\ tx' = IF Top.drop /\ ~Top.rollback THEN drop(tx, Top.route) ELSE tx
    /\ cm' = SetTop(cm, [Top EXCEPT
                !.pc = IF Top.error # None THEN "raised" ELSE "returned",
                !.attached = Top.error # None])
    /\ UNCHANGED <<routes, tables, queue, requests, wd, used, lock>>

(* The rollback commit ends in the handler of the commit that called it:   *)
(* its return value makes the original error the one reported, what it     *)
(* raises goes on to the caller.                                           *)
Unwind ==
    /\ Len(cm) > 1
    /\ Top.pc \in {"returned", "raised"}
    /\ LET inner == Top
           outer == cm[Len(cm) - 1]
           C1 == SubSeq(cm, 1, Len(cm) - 1)
       IN  cm' = SetTop(C1,
                   IF inner.pc = "returned"
                   THEN [outer EXCEPT !.pc = "finish", !.error = outer.e,
                                      !.rolled_back = TRUE]
                   ELSE [outer EXCEPT !.pc = "raised", !.error = inner.error,
                                      !.attached = inner.attached])
    /\ UNCHANGED <<routes, tx, tables, queue, requests, wd, used, lock>>

(* The caller gets the result.                                             *)
CommitExit ==
    /\ Done
    /\ cm' = <<>>
    /\ requests' = <<>>
    /\ wd' = NoWd
    /\ routes' = Sweep(routes, tables, tx, cm')
    /\ UNCHANGED <<tx, tables, queue, used, lock>>

Next ==
    \/ \E spec \in AddSpecs : Add(spec)
    \/ \E r \in RouteIds, ed \in Edits : Edit(r, ed)
    \/ \E r \in RouteIds, scope \in {"remove", "shadow"} : Stage(r, scope)
    \/ \E r \in RouteIds : Drop(r)
    \/ \E r \in RouteIds : CommitStart(r)
    \/ \E msg \in ExtMsgs : External(msg)
    \/ Ingest
    \/ Reserve
    \/ RequestOk
    \/ RequestFail
    \/ Free
    \/ WaitOk
    \/ WaitFail
    \/ Removal
    \/ DeleteOk
    \/ DeleteFail
    \/ WdOk
    \/ WdFail
    \/ ExceptAdd
    \/ ExceptRollback
    \/ ExceptFatal
    \/ Finish
    \/ Unwind
    \/ CommitExit

Spec == Init /\ [][Next]_vars

----------------------------------------------------------------------------
(* Properties.                                                             *)

(* The index of the table the commit in progress works on.                 *)
CmIdx == tables[Top.route_index]

(* Whether the index holds the route r under the key k.                    *)
Holds(idx, k, r) == k \in DOMAIN idx /\ idx[k].route = r

(* The entry of the index under a key, NotFound when there is none.        *)
EntryAt(T, t, k) == IF k \in DOMAIN T[t] THEN T[t][k] ELSE NotFound

(* C1, for the commits of a route the authority knows (devop 'set'): a     *)
(* commit that moves its route from old_key to new_key leaves, when it     *)
(* returns, the route under new_key and nothing under old_key, and when it *)
(* raises, the route under old_key and no entry for it under new_key.      *)
C1_MoveAllOrNothing ==
    (Done /\ Top.move /\ Top.devop = "set") =>
        IF Top.pc = "returned"
        THEN /\ Holds(CmIdx, Top.new_key, Top.route)
             /\ Top.old_key \notin DOMAIN CmIdx
        ELSE /\ Holds(CmIdx, Top.old_key, Top.route)
             /\ ~Holds(CmIdx, Top.new_key, Top.route)

(* C2: when a 'set' commit raises after a rollback commit that returned,   *)
(* every field of the route has the value of the snapshot.                 *)
C2_RollbackRestores ==
    (Done /\ Top.devop = "set" /\ Top.pc = "raised" /\ Top.rolled_back) =>
        routes[Top.route] = Top.snapshot

(* C3, for the commits that no notification of another user interleaves    *)
(* with: when an 'add' commit raises, the route is invalid, no index entry *)
(* refers to it, and the error is the original one with the transaction.   *)
C3_FailedAddPurged ==
    (Done /\ Top.devop = "add" /\ Top.pc = "raised" /\ used.external = 0) =>
        /\ routes[Top.route].ipdb_scope = "invalid"
        /\ Top.route \notin Indexed(tables)
        /\ Top.error = Top.e
        /\ Top.attached

(* The route of a frame is found under old_key or under new_key.           *)
Found(T, f) ==
    \/ Holds(T[f.route_index], f.old_key, f.route)
    \/ Holds(T[f.route_index], f.new_key, f.route)

Noop(f) ==
    /\ f.devop = "set"
    /\ DOMAIN diff(f.transaction, f.snapshot) = {}
    /\ TRUE \notin cleanup_flags(f.snapshot, f.snapshot,
                                 diff(f.transaction, f.snapshot))
    /\ f.transaction.ipdb_scope \notin {"remove", "shadow"}
    /\ ~f.rollback

(* C5: a commit with nothing to do never stands at a step that issues a    *)
(* request or writes the index, and its steps leave the requests issued    *)
(* and the index as they are.                                              *)
C5_NoopCommit ==
    [][(cm' # <<>> /\ Noop(cm'[Len(cm')])) =>
          /\ cm'[Len(cm')].pc \in {"finish", "returned"}
          /\ (Len(cm) = Len(cm') /\ cm' # cm) =>
                (requests' = requests /\ tables' = tables)]_vars

C5_Witness ==
    /\ Done /\ Noop(Top) /\ Top.pc = "returned"
    /\ requests = <<>>
    /\ Holds(CmIdx, Top.old_key, Top.route)

(* The caller's commit has met an index conflict: at the reservation test  *)
(* the entry of new_key was that of another route.                         *)
Conflict ==
    /\ cm # <<>>
    /\ cm[1].e = "CommitException"
    /\ cm[1].occupant # cm[1].route

(* What the caller's commit does after the conflict, but for the error it  *)
(* ends with: it never goes back to the steps of the move or returns, no   *)
(* step of it issues an add/set request with the transaction, and no step  *)
(* of it changes the entry under new_key.                                  *)
AbortsMove ==
    /\ cm'[1].pc \notin {"reserve", "request", "free", "wait", "returned"}
    /\ \A i \in DOMAIN requests' :
          requests'[i].op \in {"add", "set"} =>
              requests'[i].args # cm[1].transaction
    /\ EntryAt(tables', cm[1].route_index, cm[1].new_key)
          = EntryAt(tables, cm[1].route_index, cm[1].new_key)

(* The exception handler of the caller's commit has itself raised: the     *)
(* rollback commit of a 'set', or the purge of a failed 'add'.             *)
HandlerRaised(f) ==
    IF f.devop = "set" THEN ~f.rolled_back ELSE f.error = "KeyError"

C7_OneRollback ==
    /\ Len(cm) <= 2
    /\ \A i \in DOMAIN cm :
          /\ cm[i].rollbacks <= 1
          /\ cm[i].rollback => cm[i].rollbacks = 0
    /\ (Done /\ Top.devop = "set" /\ Top.pc = "raised") => Top.rollbacks = 1

C7_Witness ==
    /\ Done /\ Top.devop = "set" /\ Top.pc = "raised"
    /\ Top.rollbacks = 1
    /\ ~Top.rolled_back
    /\ Top.error = "RuntimeError"

(* C8: when a 'set' commit raises, the caller's transaction is dropped.    *)
C8_FailedSetDropsTransaction ==
    (Done /\ Top.devop = "set" /\ Top.pc = "raised") =>
        Top.route \notin DOMAIN tx

(* A commit of a route of scope 'system' that only stages its removal.     *)
OnlyRemoval(f) ==
    /\ f.snapshot.ipdb_scope = "system"
    /\ f.transaction.ipdb_scope = "remove"
    /\ DOMAIN diff(f.transaction, f.snapshot) = {}

(* C9: remove() and a commit that returns issue one delete request, built  *)
(* from the snapshot, and no add/set request, and the index no longer      *)
(* holds the route under its key.                                          *)
C9_RemoveCommit ==
    (Done /\ Top.pc = "returned" /\ OnlyRemoval(Top)) =>
        /\ requests = <<[op |-> "delete", args |-> Top.snapshot]>>
        /\ ~Holds(CmIdx, Top.old_key, Top.route)

(* The notification at the head of the queue confirms a route that was    *)
(* added: it is an RTM_NEWROUTE for the dst and gateway of a route of      *)
(* scope 'create' that is indexed under its key.                           *)
Confirms(r) ==
    /\ queue # <<>>
    /\ Head(queue).event = "RTM_NEWROUTE"
    /\ table_of(Head(queue)) \in DOMAIN tables
    /\ LET msg == Head(queue)
           idx == tables[table_of(msg)]
           slot == describe(idx, make_key_msg(msg))
       IN  /\ slot # NotFound
           /\ idx[slot].route = r
           /\ routes[r].ipdb_scope = "create"
           /\ make_key(routes[r]) = slot
           /\ make_key_msg(msg)[2] = routes[r].dst
           /\ make_key_msg(msg)[3] = routes[r].gateway

(* C10 as stated: the ingestion of the confirmation gives the same route   *)
(* the scope 'system' and leaves it indexed under the key it had.          *)
C10_KeyUnchanged ==
    [][\A r \in DOMAIN routes :
          (Confirms(r) /\ queue' = Tail(queue)) =>
              LET t == table_of(Head(queue))
                  slot == describe(tables[t], make_key_msg(Head(queue)))
              IN  /\ r \in DOMAIN routes'
                  /\ routes'[r].ipdb_scope = "system"
                  /\ Holds(tables'[t], slot, r)
                  /\ DOMAIN tables'[t] = DOMAIN tables[t]]_vars

(* C10, amended: the ingestion of the confirmation gives the same route    *)
(* the scope 'system' and indexes it under the key of the notification     *)
(* and under no other key; that is the key it had when the notification    *)
(* names the iif and oif of the route, and otherwise the entry has moved.  *)
C10_ConfirmedUnderMessageKey ==
    [][\A r \in DOMAIN routes :
          (Confirms(r) /\ queue' = Tail(queue)) =>
              LET msg == Head(queue)
                  t == table_of(msg)
                  slot == describe(tables[t], make_key_msg(msg))
                  key == make_key_msg(msg)
              IN  /\ r \in DOMAIN routes'
                  /\ routes'[r].ipdb_scope = "system"
                  /\ make_key(routes'[r]) = key
                  /\ Holds(tables'[t], key, r)
                  /\ DOMAIN tables'[t] = ((DOMAIN tables[t]) \ {slot}) \cup {key}
                  /\ (key[5] = routes[r].iif /\ key[6] = routes[r].oif)
                        <=> key = slot]_vars

(* A route that was added and confirmed by a notification naming an oif.   *)
C10_Witness ==
    \E r \in DOMAIN routes :
        /\ routes[r].ipdb_scope = "system"
        /\ routes[r].oif # None
        /\ Holds(tables[DefaultTable], make_key(routes[r]), r)
        /\ cm # <<>> /\ Top.route = r /\ Top.devop = "add" /\ Top.pc = "wait"
        /\ Top.old_key = Top.new_key
        /\ Top.old_key \notin DOMAIN tables[DefaultTable]

----------------------------------------------------------------------------
(* BaseRoute.load_netlink on its own: one Route, in any state a load can   *)
(* find it in, and the messages delivered to it one after the other.       *)
(* routes[1] is the Route, queue the message about to be loaded, requests  *)
(* the message loaded last and, after it, the one loaded before.           *)

MaxLoads == 2

NhOifs == {"2", "3"}

Hops == {"1"}

(* The nexthop records a multipath attribute is made of; the authority     *)
(* gives every nexthop its interface.                                      *)
NhRecords ==
    {[RTA_GATEWAY |-> g, oif |-> o, hops |-> h] :
        g \in Gateways, o \in NhOifs, h \in Hops}

(* The values of a multipath attribute: up to two nexthop records.         *)
NhRecordLists ==
    {<<a>> : a \in NhRecords} \cup {<<a, b>> : a \in NhRecords, b \in NhRecords}

(* A message with a multipath attribute.                                   *)
MsgMp(msg, records) == Put(msg, "RTA_MULTIPATH", records)

(* The RTM_NEWROUTE messages loaded: with a gateway, or with nexthops.     *)
LoadMsgs ==
    {Msg("RTM_NEWROUTE", d, l, g, None, p, m) :
        d \in Addrs, l \in PrefixLens, g \in Gateways,
        p \in Priorities \cup {None}, m \in Mtus \cup {None}}
    \cup
    {MsgMp(Msg("RTM_NEWROUTE", d, l, None, None, None, None), recs) :
        d \in Addrs, l \in PrefixLens, recs \in NhRecordLists}

(* The scopes a Route that was loaded before can have.                     *)
LoadScopes == {"system", "locked", "shadow", "gc"}

(* The nexthops a user gives as dicts: a gateway, with or without the      *)
(* interface and the hops.                                                 *)
NhPrimes ==
    {[gateway |-> g] : g \in Gateways}
    \cup {[gateway |-> g, oif |-> o] : g \in Gateways, o \in NhOifs}
    \cup {[gateway |-> g, oif |-> o, hops |-> h] :
            g \in Gateways, o \in NhOifs, h \in Hops}

(* The Routes a message is loaded into: loaded before, or made by          *)
(* RoutingTableSet.add with up to two nexthops and not yet loaded.         *)
LoadRoutes ==
    {[merge_netlink(NewRoute, m) EXCEPT !.ipdb_scope = s] :
        m \in LoadMsgs, s \in LoadScopes}
    \cup
    {[NewRoute EXCEPT !.dst = Fmt(d, l), !.ipdb_scope = "create",
                      !.multipath = NextHopSet(<<a, b>>)] :
        d \in Addrs, l \in PrefixLens, a \in NhPrimes, b \in NhPrimes}

LoadInit ==
    /\ routes \in {[r \in {1} |-> rt] : rt \in LoadRoutes}
    /\ queue \in {<<m>> : m \in LoadMsgs}
    /\ requests = <<>>
    /\ tx = [r \in {} |-> NewRoute]
    /\ tables = InitTables
    /\ cm = <<>>
    /\ wd = NoWd
    /\ used = [commits |-> 0, external |-> 0]
    /\ lock = NoLock

(* route.load_netlink(msg)                                                 *)
LoadStep ==
    /\ queue # <<>>
    /\ routes' = [routes EXCEPT ![1] = load_netlink(@, Head(queue))]
    /\ requests' = IF requests = <<>> THEN <<Head(queue)>>
                   ELSE <<Head(queue), requests[1]>>
    /\ queue' = Tail(queue)
    /\ UNCHANGED <<tx, tables, cm, wd, used, lock>>

(* The next message for the Route arrives.                                 *)
LoadArrive(msg) ==
    /\ queue = <<>>
    /\ used.external < MaxLoads
    /\ queue' = <<msg>>
    /\ used' = [used EXCEPT !.external = @ + 1]
    /\ UNCHANGED <<routes, tx, tables, cm, requests, wd, lock>>

LoadNext ==
    \/ LoadStep
    \/ \E msg \in LoadMsgs : LoadArrive(msg)

SpecLoad == LoadInit /\ [][LoadNext]_vars

(* C11: load_netlink on a Route of scope 'locked' changes nothing of it:   *)
(* every field, the scope, the nexthop set and the nested metrics and      *)
(* encap are after the call what they were before, whatever the message.   *)
C11_LockedUntouched ==
    [][(queue # <<>> /\ routes[1].ipdb_scope = "locked") =>
          routes'[1] = routes[1]]_vars

(* A locked Route after the load of a message that would have changed it.  *)
C11_Witness ==
    /\ requests # <<>>
    /\ queue = <<>>
    /\ routes[1].ipdb_scope = "locked"
    /\ merge_netlink(routes[1], requests[1]).gateway # routes[1].gateway
    /\ merge_netlink(routes[1], requests[1]).multipath # routes[1].multipath
    /\ merge_netlink(routes[1], requests[1]).metrics # routes[1].metrics

(* The keys of the nexthops a message carries.                             *)
MsgNhKeys(msg) ==
    {make_nh(load_nh(msg_multipath(msg)[i])) :
        i \in 1..Len(msg_multipath(msg))}

(* C17: after load_netlink on a Route that is not locked, the nexthop set  *)
(* of the Route holds exactly the nexthops the message carries, each once  *)
(* and with the values of its record; it is empty when the message has no  *)
(* multipath attribute.  Nothing of the set before the call is left.       *)
C17_MultipathReplaced ==
    (requests # <<>> /\ routes[1].ipdb_scope # "locked") =>
        LET S == routes[1].multipath
            msg == requests[1]
        IN  /\ NhKeys(S) = MsgNhKeys(msg)
            /\ Len(S) = Cardinality(MsgNhKeys(msg))
            /\ \A i \in 1..Len(S) :
                  \E j \in 1..Len(msg_multipath(msg)) :
                      S[i].raw = load_nh(msg_multipath(msg)[j])

(* A Route that held the two nexthops of a message, after the load of a    *)
(* message without multipath attribute.                                    *)
C17_Witness ==
    /\ Len(requests) = 2
    /\ routes[1].ipdb_scope = "system"
    /\ Len(msg_multipath(requests[2])) = 2
    /\ "RTA_MULTIPATH" \notin DOMAIN requests[1]
    /\ routes[1].multipath = <<>>

----------------------------------------------------------------------------
(* Properties of the shadow commit (specification Spec).                   *)

(* The commit in progress shadows its route and is between the locking of  *)
(* the route and the end of the wait for the RTM_DELROUTE.                 *)
ShadowWindow ==
    /\ Running({"delete", "wdwait"})
    /\ Top.transaction.ipdb_scope = "shadow"

(* C12: in a shadow commit the scope of the route is 'locked' from before  *)
(* the delete request until the wait for the deletion notification is      *)
(* over.  No step taken in between, the ingestion of an RTM_DELROUTE or an *)
(* RTM_NEWROUTE for the route included, changes a field of the route or    *)
(* takes the route out of the index.  The wait that succeeds gives the     *)
(* route the scope 'shadow' with the index as it is, and the commit goes   *)
(* on to return without another change of the route or of the index.       *)
C12_ShadowLocked ==
    /\ [](ShadowWindow => routes[Top.route].ipdb_scope = "locked")
    /\ [][ShadowWindow =>
            LET r == Top.route
                g == cm'[Len(cm)]
            IN  /\ r \in DOMAIN routes'
                /\ r \in Indexed(tables) => r \in Indexed(tables')
                /\ IF Top.pc = "wdwait" /\ g.pc = "finish"
                   THEN /\ routes'[r] = [routes[r] EXCEPT !.ipdb_scope = "shadow"]
                        /\ tables' = tables
                   ELSE routes'[r] = routes[r]]_vars
    /\ [][(Running({"finish"}) /\ cm' # cm) =>
            /\ cm'[Len(cm)].pc \in {"returned", "raised"}
            /\ routes' = routes
            /\ tables' = tables]_vars

(* A shadow commit of an indexed route has waited for the RTM_DELROUTE     *)
(* after that notification and an RTM_NEWROUTE for the route were          *)
(* ingested: the route is shadowed and indexed.                            *)
C12_Witness ==
    /\ Running({"finish"})
    /\ Top.transaction.ipdb_scope = "shadow"
    /\ Top.error = None
    /\ wd.seen
    /\ used.external > 0
    /\ routes[Top.route].ipdb_scope = "shadow"
    /\ Holds(tables[Top.route_index], make_key(routes[Top.route]), Top.route)

(* C12 at the return, for every interleaving: the scope is 'shadow'.       *)
C12_ReturnsShadow ==
    (Done /\ Top.pc = "returned" /\ Top.transaction.ipdb_scope = "shadow") =>
        routes[Top.route].ipdb_scope = "shadow"

----------------------------------------------------------------------------
(* The routing tables on their own: the notifications of the authority,    *)
(* of two tables, loaded one after the other by the ingestion path, and    *)
(* the garbage collection run by the same thread.  requests holds the      *)
(* operation performed last.                                               *)

KeyOifs == Oifs \cup {None}

(* The notifications of the authority: for the two tables, for the         *)
(* ignored table, and of table 252, whose table id is in the attribute     *)
(* RTA_TABLE.                                                              *)
TableMsgs ==
    {[Msg(e, d, l, g, o, None, None) EXCEPT !.table = t] :
        e \in {"RTM_NEWROUTE", "RTM_DELROUTE"}, d \in Addrs, l \in PrefixLens,
        g \in Gateways, o \in KeyOifs, t \in {DefaultTable, OtherTable}}
    \cup
    {[Msg(e, d, l, g, None, None, None) EXCEPT !.table = IgnoredTable] :
        e \in {"RTM_NEWROUTE", "RTM_DELROUTE"}, d \in Addrs, l \in PrefixLens,
        g \in Gateways}
    \cup
    {Put([Msg(e, d, l, g, None, None, None) EXCEPT !.table = "252"],
         "RTA_TABLE", t) :
        e \in {"RTM_NEWROUTE", "RTM_DELROUTE"}, d \in Addrs, l \in PrefixLens,
        g \in Gateways, t \in {IgnoredTable, OtherTable}}

(* The records of an index whose route has the scope 'gc':                 *)
(* self.filter({'ipdb_scope': 'gc'})                                       *)
gc_slots(R, idx) == {k \in DOMAIN idx : R[idx[k].route].ipdb_scope = "gc"}

(* RoutingTable.gc that leaves the record of a failed query in the index.  *)
gc_table_keep(R, idx, ok) ==
    [routes |-> [r \in DOMAIN R |->
                    IF r \in ok /\ \E k \in gc_slots(R, idx) : idx[k].route = r
                    THEN [R[r] EXCEPT !.ipdb_scope = "system"]
                    ELSE R[r]],
     idx |-> idx,
     raised |-> FALSE]

(* RoutingTable.gc: the route of every record of scope 'gc' is queried at  *)
(* the authority; ok holds the routes whose query succeeds.  Such a route  *)
(* becomes 'system'; the record of any other is deleted under its cached   *)
(* key, and a key the index has not raises the KeyError out of gc.         *)
gc_table(R, idx, ok) ==
    LET G == gc_slots(R, idx)
        purge == {idx[k].key : k \in {j \in G : idx[j].route \notin ok}}
    IN  [routes |-> [r \in DOMAIN R |->
                        IF r \in ok /\ \E k \in G : idx[k].route = r
                        THEN [R[r] EXCEPT !.ipdb_scope = "system"]
                        ELSE R[r]],
         idx |-> [k \in (DOMAIN idx) \ purge |-> idx[k]],
         raised |-> \E k \in purge : k \notin DOMAIN idx]

(* RoutingTableSet.gc: every table in turn.                                *)
RECURSIVE rts_gc(_, _, _, _)
rts_gc(R, T, ok, todo) ==
    IF todo = {} THEN [routes |-> R, tables |-> T, raised |-> FALSE]
    ELSE LET t == CHOOSE x \in todo : TRUE
             g == gc_table(R, T[t], ok)
             rest == rts_gc(g.routes, [T EXCEPT ![t] = g.idx], ok, todo \ {t})
         IN  IF g.raised
             THEN [routes |-> g.routes, tables |-> [T EXCEPT ![t] = g.idx],
                   raised |-> TRUE]
             ELSE rest

TablesInit ==
    /\ routes = [r \in {} |-> NewRoute]
    /\ tx = [r \in {} |-> NewRoute]
    /\ tables = InitTables
    /\ queue = <<>>
    /\ cm = <<>>
    /\ requests = <<>>
    /\ wd = NoWd
    /\ used = [commits |-> 0, external |-> 0]
    /\ lock = NoLock

(* RoutingTableSet.load_netlink(msg)                                       *)
TablesLoad(msg) ==
    /\ NeedsFresh(tables, msg) => HasFresh(routes)
    /\ LET fresh == IF HasFresh(routes) THEN Fresh(routes) ELSE 0
           s == rts_load_netlink(routes, tables, msg, fresh)
       IN  /\ tables' = s.tables
           /\ routes' = Sweep(s.routes, s.tables, tx, cm)
    /\ requests' = <<[op |-> "load_netlink", msg |-> msg]>>
    /\ UNCHANGED <<tx, queue, cm, wd, used, lock>>

(* The owner of the tables marks a route of the authority for collection.  *)
TablesFlag(r) ==
    /\ r \in DOMAIN routes
    /\ routes[r].ipdb_scope = "system"
    /\ routes' = [routes EXCEPT ![r].ipdb_scope = "gc"]
    /\ requests' = <<[op |-> "flag", route |-> r]>>
    /\ UNCHANGED <<tx, tables, queue, cm, wd, used, lock>>

(* A shadow commit locks a route of the authority, or ends.                *)
TablesScope(r, scope) ==
    /\ r \in DOMAIN routes
    /\ routes[r].ipdb_scope = IF scope = "locked" THEN "system" ELSE "locked"
    /\ routes' = [routes EXCEPT ![r].ipdb_scope = scope]
    /\ requests' = <<[op |-> "scope", route |-> r]>>
    /\ UNCHANGED <<tx, tables, queue, cm, wd, used, lock>>

(* RoutingTableSet.gc()                                                    *)
TablesGc(ok) ==
    /\ \E r \in DOMAIN routes : routes[r].ipdb_scope = "gc"
    /\ LET g == rts_gc(routes, tables, ok, DOMAIN tables)
       IN  /\ tables' = g.tables
           /\ routes' = Sweep(g.routes, g.tables, tx, cm)
           /\ requests' = <<[op |-> "gc", ok |-> ok, raised |-> g.raised,
                              gc |-> {r \in DOMAIN routes :
                                         routes[r].ipdb_scope = "gc"}]>>
    /\ UNCHANGED <<tx, queue, cm, wd, used, lock>>

TablesNext ==
    \/ \E msg \in TableMsgs : TablesLoad(msg)
    \/ \E r \in RouteIds : TablesFlag(r)
    \/ \E r \in RouteIds, scope \in {"locked", "shadow"} : TablesScope(r, scope)
    \/ \E ok \in SUBSET RouteIds : TablesGc(ok)

SpecTables == TablesInit /\ [][TablesNext]_vars

(* The step is a call of RoutingTableSet.load_netlink with an RTM_DELROUTE *)
(* whose route cannot be located: its table is unknown, or the index of    *)
(* the table has no entry under the key of the message.                    *)
UnlocatedDelroute ==
    /\ requests' # <<>>
    /\ requests'[1].op = "load_netlink"
    /\ requests'[1].msg.event = "RTM_DELROUTE"
    /\ LET msg == requests'[1].msg
       IN  \/ table_of(msg) \notin DOMAIN tables
           \/ make_key_msg(msg) \notin DOMAIN tables[table_of(msg)]

(* C13: RoutingTableSet.load_netlink with an RTM_DELROUTE for a route that *)
(* cannot be located creates no table and leaves every index and every     *)
(* Route, so every scope, as it was; nothing is raised to the caller.      *)
C13_UnlocatedDelroute ==
    [][UnlocatedDelroute =>
          /\ DOMAIN tables' = DOMAIN tables
          /\ tables' = tables
          /\ routes' = routes]_vars

(* An RTM_DELROUTE of a table that does not exist was loaded while the     *)
(* default table holds the route of the same key.                          *)
C13_Witness ==
    /\ requests # <<>>
    /\ requests[1].op = "load_netlink"
    /\ requests[1].msg.event = "RTM_DELROUTE"
    /\ table_of(requests[1].msg) \notin DOMAIN tables
    /\ make_key_msg(requests[1].msg) \in DOMAIN tables[DefaultTable]

(* The full keys with the required fields of a key: one per interface.     *)
FullKeys(P) == {[P EXCEPT ![6] = o] : o \in KeyOifs}

(* The keys a table is asked for.                                          *)
AllKeys ==
    {RouteKey(None, Fmt(d, l), g, None, None, o) :
        d \in Addrs, l \in PrefixLens, g \in Gateways, o \in KeyOifs}

(* The slots of a table that hold a Route with iif and oif unset under the *)
(* key of that Route.                                                      *)
UnsetSlots(t) ==
    {P \in DOMAIN tables[t] :
        /\ P = RequiredPrefix(P)
        /\ routes[tables[t][P].route].iif = None
        /\ routes[tables[t][P].route].oif = None}

(* What describe returns for a key tuple; NotFound for the KeyError.       *)
Described(idx, K) ==
    IF describe(idx, K) = NotFound THEN NotFound ELSE idx[describe(idx, K)]

(* C16 as stated: for a Route indexed with iif and oif unset, describe     *)
(* returns the same record for every full key with the required fields of  *)
(* the Route and for the required prefix padded with None.                 *)
C16_SameRecord ==
    \A t \in DOMAIN tables : \A P \in UnsetSlots(t) : \A K \in FullKeys(P) :
        Described(tables[t], K) = Described(tables[t], P)

(* C16: for a Route indexed with iif and oif unset, describe returns the   *)
(* record of the Route for the required prefix padded with None and for    *)
(* every full key with the same required fields that is not a key of the   *)
(* index itself; a full key of the index gets its own record.  When the    *)
(* index has neither the key asked for nor its padded prefix, describe     *)
(* raises not-found.                                                       *)
C16_FallbackRecord ==
    \A t \in DOMAIN tables :
        /\ \A P \in UnsetSlots(t) : \A K \in FullKeys(P) :
              Described(tables[t], K) =
                  IF K \in DOMAIN tables[t] THEN tables[t][K] ELSE tables[t][P]
        /\ \A K \in AllKeys :
              (K \notin DOMAIN tables[t] /\ RequiredPrefix(K) \notin DOMAIN tables[t])
                  => Described(tables[t], K) = NotFound

(* A table with a Route indexed without interface whose record describe    *)
(* returns for the key with an interface, and with another key that is not *)
(* found.                                                                  *)
C16_Witness ==
    \E P \in UnsetSlots(DefaultTable) : \E K \in FullKeys(P), N \in AllKeys :
        /\ K # P
        /\ K \notin DOMAIN tables[DefaultTable]
        /\ Described(tables[DefaultTable], K) = tables[DefaultTable][P]
        /\ Described(tables[DefaultTable], N) = NotFound

(* C19: RoutingTableSet.gc raises nothing and leaves no record of scope    *)
(* 'gc' in any index: the record of a route whose query succeeded stays    *)
(* under its key with the scope 'system', the record of a route whose      *)
(* query failed is gone, and every record of another scope, its Route      *)
(* included, is as it was.                                                 *)
C19_GcCollects ==
    [][(requests' # <<>> /\ requests'[1].op = "gc") =>
          /\ ~requests'[1].raised
          /\ DOMAIN tables' = DOMAIN tables
          /\ \A t \in DOMAIN tables' : \A k \in DOMAIN tables'[t] :
                /\ routes'[tables'[t][k].route].ipdb_scope # "gc"
                /\ k \in DOMAIN tables[t]
          /\ \A t \in DOMAIN tables : \A k \in DOMAIN tables[t] :
                LET r == tables[t][k].route
                IN  IF routes[r].ipdb_scope # "gc"
                    THEN /\ k \in DOMAIN tables'[t]
                         /\ tables'[t][k] = tables[t][k]
                         /\ routes'[r] = routes[r]
                    ELSE IF r \in requests'[1].ok
                    THEN /\ k \in DOMAIN tables'[t]
                         /\ tables'[t][k] = tables[t][k]
                         /\ routes'[r] = [routes[r] EXCEPT !.ipdb_scope = "system"]
                    ELSE k \notin DOMAIN tables'[t]]_vars

(* A collection of two routes of scope 'gc': the query of one succeeded,   *)
(* the record of the other was purged.                                     *)
C19_Witness ==
    /\ requests # <<>>
    /\ requests[1].op = "gc"
    /\ requests[1].gc = {1, 2}
    /\ requests[1].ok = {1}
    /\ Indexed(tables) = {1}
    /\ routes[1].ipdb_scope = "system"

----------------------------------------------------------------------------
(* The nexthop sets on their own: two Routes whose nexthops the user adds, *)
(* removes and assigns.                                                    *)

MaxNh == 2

(* The lists of nexthops a user assigns to route['multipath'].             *)
NhPrimeLists ==
    LET P == {p \in NhPrimes : "hops" \notin DOMAIN p /\ get_attr(p, "oif") \in KeyOifs}
    IN  {<<>>} \cup {<<a>> : a \in P} \cup {<<a, b>> : a \in P, b \in P}

(* self.add(prime) for every nexthop of a list.                            *)
RECURSIVE add_all(_, _)
add_all(S, primes) ==
    IF primes = <<>> THEN S
    ELSE add_all(nh_add(S, Head(primes)), Tail(primes))

(* self.remove(prime) for every nexthop of a list.                         *)
RECURSIVE remove_all(_, _)
remove_all(S, primes) ==
    IF primes = <<>> THEN S
    ELSE remove_all(nh_remove(S, Head(primes)).set, Tail(primes))

(* The values of a set in its order (NHIterator).                          *)
NhValues(S) == [i \in 1..Len(S) |-> S[i].raw]

(* Route.__setitem__('multipath', value) on a Route that has a set: the    *)
(* nexthops of vs - cur are added, then those of cur - vs are removed.     *)
assign_multipath(cur, value, o1, o2) ==
    LET vs == NextHopSet(value)
        cur1 == add_all(cur, NhValues(nh_sub(vs, cur, o1)))
    IN  remove_all(cur1, NhValues(nh_sub(cur1, vs, o2)))

NhInit ==
    /\ routes = [r \in RouteIds |-> [NewRoute EXCEPT !.ipdb_scope = "create"]]
    /\ tx = [r \in {} |-> NewRoute]
    /\ tables = InitTables
    /\ queue = <<>>
    /\ cm = <<>>
    /\ requests = <<>>
    /\ wd = NoWd
    /\ used = [commits |-> 0, external |-> 0]
    /\ lock = NoLock

(* route.add_nh(prime)                                                     *)
NhAdd(r, prime) ==
    /\ Len(nh_add(routes[r].multipath, prime)) <= MaxNh
    /\ routes' = [routes EXCEPT ![r].multipath = nh_add(@, prime)]
    /\ UNCHANGED <<tx, tables, queue, cm, requests, wd, used, lock>>

(* route.del_nh(prime); a KeyError leaves the set as it is.                *)
NhDel(r, prime) ==
    /\ nh_remove(routes[r].multipath, prime).ok
    /\ routes' = [routes EXCEPT ![r].multipath = nh_remove(@, prime).set]
    /\ UNCHANGED <<tx, tables, queue, cm, requests, wd, used, lock>>

(* route['multipath'] = value                                              *)
NhAssign(r, value) ==
    /\ LET cur == routes[r].multipath
           vs == NextHopSet(value)
       IN  \E o1 \in Orders(sub_keys(vs, cur)) :
             LET cur1 == add_all(cur, NhValues(nh_sub(vs, cur, o1)))
             IN  \E o2 \in Orders(sub_keys(cur1, vs)) :
                   /\ Len(assign_multipath(cur, value, o1, o2)) <= MaxNh
                   /\ routes' = [routes EXCEPT ![r].multipath =
                           assign_multipath(cur, value, o1, o2)]
    /\ UNCHANGED <<tx, tables, queue, cm, requests, wd, used, lock>>

NhNext ==
    \/ \E r \in RouteIds, prime \in NhPrimes : NhAdd(r, prime)
    \/ \E r \in RouteIds, prime \in NhPrimes : NhDel(r, prime)
    \/ \E r \in RouteIds, value \in NhPrimeLists : NhAssign(r, value)

SpecNH == NhInit /\ [][NhNext]_vars

(* C14: a nexthop set holds at most one entry per required-field prefix,   *)
(* whatever was added to it and removed from it.                           *)
C14_OnePerPrefix ==
    \A r \in DOMAIN routes :
        \A i, j \in 1..Len(routes[r].multipath) :
            i # j => RequiredPrefix(routes[r].multipath[i].key)
                        # RequiredPrefix(routes[r].multipath[j].key)

(* C15: the keys of A - B are the keys of A that are not keys of B, in     *)
(* whatever order the difference is built.                                 *)
C15_SubKeys ==
    LET A == routes[1].multipath
        B == routes[2].multipath
    IN  \A o \in Orders(sub_keys(A, B)) :
            NhKeys(nh_sub(A, B, o)) = sub_keys(A, B)

----------------------------------------------------------------------------
(* The commit of Spec beside an ingestion thread that takes the lock of    *)
(* the table for RoutingTable.__setitem__ and __delitem__ in a step of its *)
(* own.  commit reads and writes the index (route_index) without the lock. *)

(* with self.lock: the ingestion thread enters the locked section.         *)
IngestLock ==
    /\ queue # <<>>
    /\ ~Done
    /\ lock[table_of(Head(queue))] = None
    /\ lock' = [lock EXCEPT ![table_of(Head(queue))] = "ingest"]
    /\ UNCHANGED <<routes, tx, tables, queue, cm, requests, wd, used>>

(* The body of the locked section and its end.                             *)
IngestLocked ==
    /\ queue # <<>>
    /\ lock[table_of(Head(queue))] = "ingest"
    /\ Deliver
    /\ lock' = [lock EXCEPT ![table_of(Head(queue))] = None]

(* RoutingTableSet.add: its __setitem__ waits for the lock.                *)
LockedAdd(spec) == lock[DefaultTable] = None /\ Add(spec)

(* The _route_del of the delete response with a lock that is still held    *)
(* when the commit goes on to wait.                                        *)
LockedDeleteOk_keeps_lock ==
    /\ Running({"delete"})
    /\ lock[Top.route_index] = None
    /\ DeleteAccepted
    /\ lock' = [lock EXCEPT ![Top.route_index] = "commit"]

(* The _route_del of the delete response waits for the lock, which it      *)
(* releases at the end of __delitem__.                                     *)
LockedDeleteOk ==
    /\ Running({"delete"})
    /\ lock[Top.route_index] = None
    /\ DeleteAccepted
    /\ UNCHANGED lock

LockNext ==
    \/ \E spec \in AddSpecs : LockedAdd(spec)
    \/ \E r \in RouteIds, ed \in Edits : Edit(r, ed)
    \/ \E r \in RouteIds, scope \in {"remove", "shadow"} : Stage(r, scope)
    \/ \E r \in RouteIds : Drop(r)
    \/ \E r \in RouteIds : CommitStart(r)
    \/ \E msg \in ExtMsgs : External(msg)
    \/ IngestLock
    \/ IngestLocked
    \/ Reserve
    \/ RequestOk
    \/ RequestFail
    \/ Free
    \/ WaitOk
    \/ WaitFail
    \/ Removal
    \/ LockedDeleteOk
    \/ DeleteFail
    \/ WdOk
    \/ WdFail
    \/ ExceptAdd
    \/ ExceptRollback
    \/ ExceptFatal
    \/ Finish
    \/ Unwind
    \/ CommitExit

SpecLock == Init /\ [][LockNext]_vars

(* C18, for the writes: while a thread holds the lock of a table, the      *)
(* index of the table changes only by the steps of that thread (here the   *)
(* ingestion thread, whose step takes the notification from the queue).    *)
C18_IndexUnderLock ==
    [][\A t \in DOMAIN tables :
          (lock[t] = "ingest" /\ tables'[t] # tables[t]) =>
              queue' = Tail(queue)]_vars

----------------------------------------------------------------------------
(* Properties of the waits of commit (specification Spec).                 *)

(* The attributes a commit changes to a value: the fields of its diff that *)
(* the transaction sets, nested metrics and encap with a value included.   *)
Changed(f) ==
    {a \in (DOMAIN diff(f.transaction, f.snapshot)) \ {"family", "table"} :
        IF a \in NestedFields THEN any_values(f.transaction[a])
        ELSE IF a = "multipath" THEN f.transaction[a] # <<>>
        ELSE Truthy(f.transaction[a])}

(* C20: a commit call that issued an add or set request and returns has    *)
(* been through the wait for its targets, and that wait ended when the     *)
(* Route had, for every attribute the transaction changes, the value of    *)
(* the transaction, loaded from a notification of the authority; a commit  *)
(* call that issued a delete request and returns has been through the wait *)
(* of the watchdog, which ended after an RTM_DELROUTE that matches the key *)
(* of the snapshot was ingested.                                           *)
C20_WaitsBeforeReturn ==
    /\ [](\A i \in 1..Len(cm) :
            cm[i].pc = "returned" =>
                /\ cm[i].issued \cap {"add", "set"} # {} =>
                      "targets" \in cm[i].observed
                /\ "delete" \in cm[i].issued => "delroute" \in cm[i].observed)
    /\ [][(cm # <<>> /\ Len(cm') = Len(cm)) =>
            LET f == Top
                g == cm'[Len(cm)]
            IN  /\ ("targets" \in g.observed /\ "targets" \notin f.observed) =>
                      /\ f.issued \cap {"add", "set"} # {}
                      /\ \A a \in Changed(f) :
                            routes[f.route][a] = f.transaction[a]
                /\ ("delroute" \in g.observed /\ "delroute" \notin f.observed) =>
                      /\ "delete" \in f.issued
                      /\ wd.seen
                      /\ wd.key = WatchdogKey(f.snapshot)]_vars

(* A commit that changed the gateway and removes the route has returned    *)
(* after both waits.                                                       *)
C20_Witness ==
    /\ Done
    /\ Top.pc = "returned"
    /\ Top.issued = {"set", "delete"}
    /\ Top.observed = {"targets", "delroute"}
    /\ "gateway" \in Changed(Top)

----------------------------------------------------------------------------
(* Termination of commit: the machine of SpecLock with a fair commit       *)
(* thread and a fair ingestion thread.  A wait gives up only when the      *)
(* ingestion thread has nothing left that it can deliver, so that a commit *)
(* that kept the ingestion thread from the lock would wait for ever.       *)

(* The ingestion thread has nothing to deliver: the queue is empty, or the *)
(* next notification needs a Route beyond MaxRoutes.                       *)
Drained ==
    IF queue = <<>> THEN TRUE
    ELSE NeedsFresh(tables, Head(queue)) /\ ~HasFresh(routes)

(* transaction.wait_all_targets() raises by the policy of the wait         *)
(* mechanism.                                                              *)
LiveWaitFail == Drained /\ WaitFail

(* The steps of the thread that called commit.  wd.wait() has no step     *)
(* that raises: the RTM_DELROUTE of an accepted delete request stays in    *)
(* the queue until it is ingested, so the ingestion thread is never        *)
(* drained while the commit waits for it.                                  *)
CommitStep ==
    \/ Reserve
    \/ RequestOk
    \/ RequestFail
    \/ Free
    \/ WaitOk
    \/ LiveWaitFail
    \/ Removal
    \/ LockedDeleteOk
    \/ DeleteFail
    \/ WdOk
    \/ ExceptAdd
    \/ ExceptRollback
    \/ ExceptFatal
    \/ Finish
    \/ Unwind
    \/ CommitExit

(* The steps of the ingestion thread.                                      *)
IngestStep == IngestLock \/ IngestLocked

MaxLiveExternal == 1

(* The user adds routes by gw1 and edits the gateway; another user of the  *)
(* authority causes at most MaxLiveExternal notifications, without metrics. *)
LiveNext ==
    \/ \E spec \in {a \in AddSpecs : a.gateway = "gw1"} : LockedAdd(spec)
    \/ \E r \in RouteIds, ed \in {e \in Edits : e.field = "gateway"} :
          Edit(r, ed)
    \/ \E r \in RouteIds, scope \in {"remove", "shadow"} : Stage(r, scope)
    \/ \E r \in RouteIds : Drop(r)
    \/ \E r \in RouteIds : CommitStart(r)
    \/ \E msg \in {n \in ExtMsgs : n.RTA_METRICS = None} :
          used.external < MaxLiveExternal /\ External(msg)
    \/ IngestStep
    \/ CommitStep

SpecLive ==
    /\ Init
    /\ [][LiveNext]_vars
    /\ WF_vars(CommitStep)
    /\ WF_vars(IngestStep)

(* C21: a commit that has issued a request to the authority completes, by  *)
(* a return or by a raised error, and it has called at most one rollback   *)
(* commit, which called none; no lock of a table is held while the commit  *)
(* is in one of its two waits unless the ingestion thread holds it.        *)
C21_CommitCompletes ==
    /\ (cm # <<>> /\ cm[1].issued # {}) ~> Done
    /\ [](\A i \in 1..Len(cm) :
            /\ cm[i].rollbacks <= 1
            /\ cm[i].rollback => cm[i].rollbacks = 0
            /\ i <= 2)
    /\ [](Running({"wait", "wdwait"}) =>
            \A t \in DOMAIN lock : lock[t] \in {None, "ingest"})

(* The commit waits for the RTM_DELROUTE while the ingestion thread holds  *)
(* the lock of the table to deliver it.                                    *)
C21_Witness ==
    /\ Running({"wdwait"})
    /\ queue # <<>>
    /\ wd_match(Head(queue), wd.key)
    /\ lock[Top.route_index] = "ingest"
    /\ ~wd.seen

----------------------------------------------------------------------------
(* Properties of the routing of notifications by table (SpecTables).       *)

(* The Routes the records of an index refer to.                            *)
RoutesOf(idx) == {idx[k].route : k \in DOMAIN idx}

(* C22: load_netlink with a notification whose table id (the attribute     *)
(* RTA_TABLE for table 252) is in ignore_rtables changes no table, no      *)
(* index and no Route; with a notification of any other table id T it      *)
(* leaves every other table in the set with its index, and the Routes of   *)
(* the other tables, as they were, and adds no table but T.                *)
C22_OnlyItsTable ==
    [][(requests' # <<>> /\ requests'[1].op = "load_netlink") =>
          LET msg == requests'[1].msg
              T == table_of(msg)
          IN  IF T \in ignore_rtables
              THEN tables' = tables /\ routes' = routes
              ELSE /\ DOMAIN tables \subseteq DOMAIN tables'
                   /\ DOMAIN tables' \subseteq (DOMAIN tables) \cup {T}
                   /\ \A t \in (DOMAIN tables) \ {T} :
                         /\ tables'[t] = tables[t]
                         /\ \A r \in RoutesOf(tables[t]) :
                               r \in DOMAIN routes' /\ routes'[r] = routes[r]]_vars

(* A notification of table 252 that names the ignored table was loaded     *)
(* while both tables have records.                                         *)
C22_Witness ==
    /\ requests # <<>>
    /\ requests[1].op = "load_netlink"
    /\ requests[1].msg.table = "252"
    /\ requests[1].msg.event = "RTM_NEWROUTE"
    /\ table_of(requests[1].msg) = IgnoredTable
    /\ OtherTable \in DOMAIN tables
    /\ tables[OtherTable] # EmptyIdx
    /\ tables[DefaultTable] # EmptyIdx

----------------------------------------------------------------------------
(* Properties of the cleanup flags of commit (specification Spec).         *)

(* A commit on a route of the authority, not MPLS.                         *)
SystemCommit(f) ==
    /\ f.snapshot.ipdb_scope = "system"
    /\ f.snapshot.family # AF_MPLS

(* The transaction empties the metrics or the encap the snapshot has.      *)
Cleared(f) ==
    \E a \in NestedFields :
        any_values(f.snapshot[a]) /\ ~any_values(f.transaction[a])

(* The snapshot has metrics or encap, and the transaction changes nothing. *)
Untouched(f) ==
    /\ \E a \in NestedFields : any_values(f.snapshot[a])
    /\ DOMAIN diff(f.transaction, f.snapshot) = {}
    /\ f.transaction.ipdb_scope = "system"

(* The first half of C23: a commit that empties the metrics or the encap   *)
(* of a route of the authority has issued the set request when it returns. *)
C23_ClearedRequests ==
    \A i \in 1..Len(cm) :
        (SystemCommit(cm[i]) /\ Cleared(cm[i]) /\ cm[i].pc = "returned") =>
            "set" \in cm[i].issued

(* C23: for a route of the authority that is not MPLS, a commit that       *)
(* empties the metrics or the encap of the snapshot issues the set         *)
(* request, and a commit whose transaction changes nothing issues no       *)
(* request although the snapshot has metrics or encap.                     *)
C23_CleanupOnlyWhenCleared ==
    /\ C23_ClearedRequests
    /\ \A i \in 1..Len(cm) :
          (SystemCommit(cm[i]) /\ Untouched(cm[i])) =>
              (cm[i].issued = {} /\ cm[i].pc \notin {"reserve", "request"})

----------------------------------------------------------------------------
(* NextHopSet.remove on the set of one Route (specification SpecRm): the   *)
(* nexthops are added and removed one by one, and requests holds the last  *)
(* removal with the set it was called on.                                  *)

(* route.add_nh(prime)                                                     *)
RmAdd(prime) ==
    /\ Len(nh_add(routes[1].multipath, prime)) <= MaxNh
    /\ routes' = [routes EXCEPT ![1].multipath = nh_add(@, prime)]
    /\ requests' = <<>>
    /\ UNCHANGED <<tx, tables, queue, cm, wd, used, lock>>

(* route.del_nh(prime), whether it returns or raises the KeyError.         *)
RmDel(prime) ==
    /\ \E res \in {nh_remove(routes[1].multipath, prime)} :
          /\ routes' = [routes EXCEPT ![1].multipath = res.set]
          /\ requests' = <<[op |-> "del_nh", prime |-> prime, ok |-> res.ok,
                             before |-> routes[1].multipath]>>
    /\ UNCHANGED <<tx, tables, queue, cm, wd, used, lock>>

RmNext ==
    \/ \E prime \in NhPrimes : RmAdd(prime)
    \/ \E prime \in NhPrimes : RmDel(prime)

SpecRm == NhInit /\ [][RmNext]_vars

(* An entry matches a nexthop when its key has, for every field the        *)
(* nexthop sets, that value.                                               *)
Matches(key, prime) ==
    \A ref \in DOMAIN prime :
        Truthy(prime[ref]) =>
            \E j \in 1..Len(KeyFields) :
                KeyFields[j] = ref /\ key[j] = prime[ref]

(* The positions of the entries of a set that match a nexthop.             *)
Matching(S, prime) == {i \in 1..Len(S) : Matches(S[i].key, prime)}

----------------------------------------------------------------------------
(* Properties of the index while no commit runs (specification Spec).      *)

(* The entries of the indexes: table and key.                              *)
Entries == UNION {{<<t, k>> : k \in DOMAIN tables[t]} : t \in DOMAIN tables}

(* C25: while no commit is in progress no entry of an index refers to a    *)
(* Route whose scope is 'invalid' or 'detached'.                           *)
C25_NoDeadRouteIndexed ==
    Idle =>
        \A e \in Entries :
            routes[tables[e[1]][e[2]].route].ipdb_scope \notin {"invalid", "detached"}


(* C26: when a commit call has returned or raised, the scope of its Route  *)
(* is not 'locked', and no Route is 'locked' while no commit runs.         *)
C26_NotLockedAfterCommit ==
    /\ \A i \in 1..Len(cm) :
          (cm[i].pc \in {"returned", "raised"} /\ cm[i].route \in DOMAIN routes) =>
              routes[cm[i].route].ipdb_scope # "locked"
    /\ Idle => \A r \in DOMAIN routes : routes[r].ipdb_scope # "locked"


(* The second half of C27: every record is stored under its cached key.    *)
C27_CachedKey ==
    Idle => \A e \in Entries : tables[e[1]][e[2]].key = e[2]

(* C27: while no commit is in progress a Route is referred to by at most   *)
(* one entry of the indexes, and the cached key of every record is the key *)
(* it is stored under.                                                     *)
C27_OneEntryPerRoute ==
    /\ Idle =>
          \A e1, e2 \in Entries :
              tables[e1[1]][e1[2]].route = tables[e2[1]][e2[2]].route => e1 = e2
    /\ C27_CachedKey

====
